---- MODULE Spec2Model ----
(***************************************************************************)
(* Model of vip/calib/rescaling.py: frame_px_resampling,                   *)
(* cube_px_resampling, frame_rescaling, cube_rescaling, check_scal_vector. *)
(*                                                                         *)
(* Real numbers are exact rationals <<n, d>> (d > 0, lowest terms); every  *)
(* scale and pixel value the model draws is a dyadic rational, which a     *)
(* float holds exactly.  Arrays are sequences (1-d), sequences of rows     *)
(* (2-d) and sequences of frames (3-d), indexed from 1.                    *)
(***************************************************************************)
EXTENDS Integers, Sequences, FiniteSets, TLC

VARIABLES py,      \* the interpreter running the module: 2 or 3
          pc,      \* "idle", "returned", "raised"
          fn,      \* the function called
          args,    \* its arguments, as passed
          input,   \* the contents of the caller's input object, now
          locals,  \* the loop variables of a cube function as it left its loop
          ret,     \* the value returned
          retIsInput, \* the returned object is the caller's input object
          exc      \* the exception raised, or "none"

vars == <<py, pc, fn, args, input, locals, ret, retIsInput, exc>>

\* An optional argument is a set: None is empty, a given value x is {x}.
None == {}
Some(x) == {x}
The(o) == CHOOSE x \in o : TRUE

\* A variable that holds nothing yet (no call made, nothing returned).
NoValue == "no value"

\* No loop was entered.
NoLocals == [i |-> 0]

(***************************************************************************)
(* Bounds of the model.                                                    *)
(***************************************************************************)
MaxLen == 3       \* longest scale vector
MaxDim == 2       \* largest frame side
MaxFrames == 3    \* most frames in a cube

(***************************************************************************)
(* Exact rational arithmetic.                                              *)
(***************************************************************************)
Abs(n) == IF n < 0 THEN -n ELSE n

RECURSIVE GCD(_, _)
GCD(a, b) == IF b = 0 THEN a ELSE GCD(b, a % b)

\* n/d in lowest terms, g the greatest common divisor of |n| and |d|.
Reduced(n, d, g) == IF d < 0 THEN <<(-n) \div g, (-d) \div g>>
                    ELSE <<n \div g, d \div g>>

Rat(n, d) == Reduced(n, d, GCD(Abs(n), Abs(d)))

Int2R(n) == <<n, 1>>

\* Sums over the least common denominator and products cancelled crosswise,
\* so that no intermediate outgrows the result.
AddOver(a, b, g) ==
    Rat(a[1] * (b[2] \div g) + b[1] * (a[2] \div g), (a[2] \div g) * b[2])
RAdd(a, b) == AddOver(a, b, GCD(a[2], b[2]))
RNeg(a) == <<-a[1], a[2]>>
RSub(a, b) == RAdd(a, RNeg(b))
MulOver(a, b, g1, g2) ==
    Rat((a[1] \div g1) * (b[1] \div g2), (a[2] \div g2) * (b[2] \div g1))
RMul(a, b) == MulOver(a, b, GCD(Abs(a[1]), b[2]), GCD(Abs(b[1]), a[2]))
RInv(b) == IF b[1] < 0 THEN <<-b[2], -b[1]>> ELSE <<b[2], b[1]>>
RDiv(a, b) == RMul(a, RInv(b))
LtOver(a, b, g) == a[1] * (b[2] \div g) < b[1] * (a[2] \div g)
RLt(a, b) == LtOver(a, b, GCD(a[2], b[2]))
RLe(a, b) == ~RLt(b, a)
RFloor(a) == a[1] \div a[2]
RIsInt(a) == a[2] = 1

Zero == Int2R(0)
One == Int2R(1)
Half == Rat(1, 2)

RECURSIVE RSum(_)
RSum(s) == IF s = <<>> THEN Zero ELSE RAdd(Head(s), RSum(Tail(s)))

(***************************************************************************)
(* Inputs.                                                                 *)
(***************************************************************************)
\* Scale factors are positive reals: below, at and above 1.
Scales == {Rat(1, 2), One, Rat(5, 4), Int2R(2)}

\* 1-d contents of length 0..MaxLen.
ScaleVectors == UNION {[1..n -> Scales] : n \in 0..MaxLen}

Interpreters == {2, 3}

(***************************************************************************)
(* check_scal_vector                                                       *)
(***************************************************************************)
\* np.amax: line 298 were it to take the largest entry.
RECURSIVE amax(_)
amax(v) ==
    IF Len(v) = 1 THEN v[1]
    ELSE LET m == amax(Tail(v)) IN IF RLt(v[1], m) THEN m ELSE v[1]

\* np.amin over a non-empty 1-d array; the result is a scalar of its own,
\* not a view of the array.
RECURSIVE amin(_)
amin(v) ==
    IF Len(v) = 1 THEN v[1]
    ELSE LET m == amin(Tail(v)) IN IF RLt(m, v[1]) THEN m ELSE v[1]

\* The loop of lines 304-305 were scal_min a live view of the minimum.
RECURSIVE csv_divide_live(_, _, _)
csv_divide_live(vec, scal_min, ii) ==
    IF ii > Len(vec) THEN vec
    ELSE csv_divide_live([vec EXCEPT ![ii] = RDiv(vec[ii], amin(vec))],
                         scal_min, ii + 1)

\* for ii in range(nz): scal_vec[ii] = scal_vec[ii]/scal_min
\* (ii counts from 1 here), writing through the array in place.
RECURSIVE csv_divide(_, _, _)
csv_divide(vec, scal_min, ii) ==
    IF ii > Len(vec) THEN vec
    ELSE csv_divide([vec EXCEPT ![ii] = RDiv(vec[ii], scal_min)],
                    scal_min, ii + 1)

\* list.copy() exists from Python 3.3 on; a Python 2 list has no copy.
list_copy_exists(pyv) == pyv = 3

\* The whole function.  heap.arg is the caller's object, heap.new the array
\* np.zeros(nz) allocates; ref names the object the local scal_vec is bound to.
check_scal_vector(kind, scal_vec, pyv) ==
    LET raise(e) == [exc |-> e, ret |-> NoValue, retIsInput |-> FALSE,
                     input |-> scal_vec, locals |-> NoLocals]
    IN
    IF kind = "list" /\ ~list_copy_exists(pyv) THEN raise("AttributeError")
    ELSE IF kind \notin {"list", "ndarray"} THEN raise("TypeError")
    ELSE
      LET ref == IF kind = "list" THEN "new" ELSE "arg"
          heap0 == [arg |-> scal_vec, new |-> scal_vec]  \* lines 289-291 fill new
          nz == Len(scal_vec)
          correct0 == kind = "list"
      IN
      IF nz = 0 THEN raise("ValueError")                 \* np.amin of nothing
      ELSE
        LET scal_min == amin(heap0[ref])
            correct == correct0 \/ RLt(scal_min, One)
            heap1 == IF correct
                     THEN [heap0 EXCEPT ![ref] = csv_divide(heap0[ref], scal_min, 1)]
                     ELSE heap0
        IN [exc |-> "none", ret |-> heap1[ref], retIsInput |-> ref = "arg",
            input |-> heap1.arg, locals |-> NoLocals]

(***************************************************************************)
(* Arrays.  [ndim, a]: a is a sequence of rows (ndim 2) or of frames       *)
(* (ndim 3).  shape follows numpy's array.shape, counted from 0.           *)
(***************************************************************************)
Arr(n, a) == [ndim |-> n, a |-> a]

shape(array, k) ==
    IF k = 0 THEN Len(array.a)
    ELSE IF k = 1 THEN Len(array.a[1])
    ELSE Len(array.a[1][1])

\* array[i] of a cube, i counted from 0.
subarray(array, i) == Arr(array.ndim - 1, array.a[i + 1])

Patterns == {"flat", "ramp"}

\* The pixel at row r, column c (from 0) of the k-th test frame.
PixelOf(pat, k, r, c, cols) ==
    IF pat = "flat" THEN Int2R(2 + k) ELSE Int2R(r * cols + c + k)

FrameOf(pat, k, rows, cols) ==
    [r \in 1..rows |-> [c \in 1..cols |-> PixelOf(pat, k, r - 1, c - 1, cols)]]

Frames == {Arr(2, FrameOf(pat, 0, rows, cols)) :
             pat \in Patterns, rows \in 1..MaxDim, cols \in 1..MaxDim}

\* Cubes of 1..MaxFrames frames, frame k the k-th test frame of a pattern.
CubesOf(pats) ==
    {Arr(3, [k \in 1..n |-> FrameOf(pat, k - 1, rows, cols)]) :
        pat \in pats, n \in 1..MaxFrames,
        rows \in 1..MaxDim, cols \in 1..MaxDim}

(***************************************************************************)
(* Rounding.                                                               *)
(***************************************************************************)
\* Half-way cases go to the even neighbour.  f is the floor of x.
HalfEvenFrom(x, f) ==
    IF RLt(x, RAdd(Int2R(f), Half)) THEN f
    ELSE IF RLt(RAdd(Int2R(f), Half), x) THEN f + 1
    ELSE IF f % 2 = 0 THEN f ELSE f + 1

RoundHalfEven(x) == HalfEvenFrom(x, RFloor(x))

\* Half-way cases go away from zero (x >= 0 here).
RoundHalfAway(x) == RFloor(RAdd(x, Half))

\* The builtin round(): half away from zero in Python 2, half to even in 3.
py_round(x, pyv) == IF pyv = 2 THEN RoundHalfAway(x) ELSE RoundHalfEven(x)

\* cv2's saturate_cast<int>(double): round to nearest, ties to even.
cvRound(x) == RoundHalfEven(x)

(***************************************************************************)
(* cv2.resize(src, (0,0), fx, fy, interpolation)                           *)
(***************************************************************************)
Interpolations == {"bilinear", "bicubic", "nearneig"}

Clamp(i, lo, hi) == IF i < lo THEN lo ELSE IF i > hi THEN hi ELSE i

\* interpolateCubic: the four weights of the taps at -1, 0, 1, 2 for the
\* fraction x, with A = -3/4:
\*   c0 = ((A(x+1) - 5A)(x+1) + 8A)(x+1) - 4A  = A x (1-x)^2
\*   c1 = ((A+2)x - (A+3)) x^2 + 1
\*   c2 = ((A+2)(1-x) - (A+3)) (1-x)^2 + 1
\*   c3 = 1 - c0 - c1 - c2                      = A (1-x) x^2
\* over the common denominator 4 d^3 of x = n/d.
CubicCoeffs(x) ==
    <<Rat(-3 * x[1] * (x[2] - x[1]) * (x[2] - x[1]), 4 * x[2] * x[2] * x[2]),
      Rat(5 * x[1] * x[1] * x[1] - 9 * x[1] * x[1] * x[2]
             + 4 * x[2] * x[2] * x[2],
          4 * x[2] * x[2] * x[2]),
      Rat(5 * (x[2] - x[1]) * (x[2] - x[1]) * (x[2] - x[1])
             - 9 * (x[2] - x[1]) * (x[2] - x[1]) * x[2]
             + 4 * x[2] * x[2] * x[2],
          4 * x[2] * x[2] * x[2]),
      Rat(-3 * (x[2] - x[1]) * x[1] * x[1], 4 * x[2] * x[2] * x[2])>>

\* The cubic taps around the source position pos whose floor is s: source
\* indices clamped to the border (replicated).
ResizeCubicTaps(w, s, n) == [j \in 1..4 |-> <<Clamp(s + j - 2, 0, n - 1), w[j]>>]

\* The two linear taps; at and beyond either border the nearer sample alone.
ResizeLinearTaps(pos, s, n) ==
    IF s < 0 THEN <<<<0, One>>, <<Clamp(1, 0, n - 1), Zero>>>>
    ELSE IF s >= n - 1 THEN <<<<n - 1, One>>, <<n - 1, Zero>>>>
    ELSE <<<<s, RSub(Int2R(s + 1), pos)>>, <<s + 1, RSub(pos, Int2R(s))>>>>

ResizeTapsAt(intp, pos, n) ==
    IF intp = "bilinear" THEN ResizeLinearTaps(pos, RFloor(pos), n)
    ELSE ResizeCubicTaps(CubicCoeffs(RSub(pos, Int2R(RFloor(pos)))),
                         RFloor(pos), n)

\* The taps of one output index d along an axis of n source samples scaled by
\* f: a sequence of <<source index, weight>>.  Nearest takes the sample at
\* floor(d/f); the others interpolate about (d + 1/2)/f - 1/2.
ResizeTaps(intp, d, n, f) ==
    IF intp = "nearneig"
    THEN <<<<Clamp(RFloor(RDiv(Int2R(d), f)), 0, n - 1), One>>>>
    ELSE ResizeTapsAt(intp, RSub(RDiv(Rat(2 * d + 1, 2), f), Half), n)

\* One term of a weighted sum: the weight of tap j times V at its index.
Term(t, j, V(_)) == RMul(t[j][2], V(t[j][1]))

\* The weighted sum over the taps t (1, 2 or 4 of them) of V at each tap's
\* index.
TapSum(t, V(_)) ==
    IF Len(t) = 1 THEN Term(t, 1, V)
    ELSE IF Len(t) = 2 THEN RAdd(Term(t, 1, V), Term(t, 2, V))
    ELSE RAdd(RAdd(Term(t, 1, V), Term(t, 2, V)),
              RAdd(Term(t, 3, V), Term(t, 4, V)))

\* One pixel: the weighted sum over the row taps ty and the column taps tx.
WeightedSum(a, ty, tx) ==
    TapSum(ty, LAMBDA r : TapSum(tx, LAMBDA c : a[r + 1][c + 1]))

\* The size cv2.resize gives an axis of n samples scaled by f.
cv2_dsize(n, f) == cvRound(RMul(Int2R(n), f))

\* The h x w output of the resize.
cv2_resize_to(a, fx, fy, intp, h, w) ==
    [r \in 1..h |-> [c \in 1..w |->
        WeightedSum(a, ResizeTaps(intp, r - 1, Len(a), fy),
                       ResizeTaps(intp, c - 1, Len(a[1]), fx))]]

\* [exc, a]: the resized rows, or cv2.error when the size rounds to nothing.
cv2_resize(a, fx, fy, intp) ==
    IF cv2_dsize(Len(a), fy) = 0 \/ cv2_dsize(Len(a[1]), fx) = 0
    THEN [exc |-> "cv2.error", a |-> <<>>]
    ELSE [exc |-> "none",
          a |-> cv2_resize_to(a, fx, fy, intp, cv2_dsize(Len(a), fy),
                              cv2_dsize(Len(a[1]), fx))]

(***************************************************************************)
(* frame_px_resampling                                                     *)
(***************************************************************************)
\* What a call leaves behind: the exception or the value returned, whether
\* the returned object is the caller's input object, the contents of that
\* input object, and the loop variables of a cube function.
Raise(e, array) ==
    [exc |-> e, ret |-> NoValue, retIsInput |-> FALSE, input |-> array,
     locals |-> NoLocals]

Return(v, array) ==
    [exc |-> "none", ret |-> v, retIsInput |-> FALSE, input |-> array,
     locals |-> NoLocals]

\* "x if x is not None else y"
OrElse(x, y) == IF x = None THEN y ELSE The(x)

\* Lines 69-71: the resized copy is returned, cv2's error passed on.
resized_frame(array, r) ==
    IF r.exc # "none" THEN Raise(r.exc, array) ELSE Return(Arr(2, r.a), array)

frame_px_resampling(array, scale, interpolation, scale_y, scale_x) ==
    IF array.ndim # 2 THEN Raise("TypeError", array)
    ELSE IF interpolation \notin Interpolations THEN Raise("TypeError", array)
    ELSE resized_frame(array,
                       cv2_resize(array.a, OrElse(scale_x, scale),
                                  OrElse(scale_y, scale), interpolation))

(***************************************************************************)
(* cube_px_resampling                                                      *)
(***************************************************************************)
Zeros2(h, w) == [r \in 1..h |-> [c \in 1..w |-> Zero]]

\* numpy's rule for dst[i] = src: each axis of src has dst's length, or 1.
Broadcastable(src, h, w) ==
    /\ Len(src) \in {h, 1}
    /\ Len(src[1]) \in {w, 1}

Broadcast(src, h, w) ==
    [r \in 1..h |-> [c \in 1..w |->
        src[IF Len(src) = 1 THEN 1 ELSE r][IF Len(src[1]) = 1 THEN 1 ELSE c]]]

\* The divisor of line 127 were it the product of the two axis factors.
flux_divisor_axes(scale, scale_y, scale_x) == RMul(scale_y, scale_x)

\* scale**2
flux_divisor(scale, scale_y, scale_x) == RMul(scale, scale)

\* array_resc[i] /= d
DivideFrame(fr, d) ==
    [r \in 1..Len(fr) |-> [c \in 1..Len(fr[1]) |-> RDiv(fr[r][c], d)]]

\* What leaving the loop at frame i with exception e leaves behind.
LoopExit(e, i, acc) == [exc |-> e, i |-> i, acc |-> acc]

\* Lines 124-127 for frame i, fr being what frame_px_resampling gave: the
\* frame is stored and divided, or the loop is left with the exception.
RECURSIVE cpr_loop(_, _, _, _)
cpr_store(array, array_resc, i, p, fr) ==
    IF fr.exc # "none" THEN LoopExit(fr.exc, i, array_resc)
    ELSE IF ~Broadcastable(fr.ret.a, p.h, p.w)
    THEN LoopExit("ValueError", i, array_resc)
    ELSE cpr_loop(array,
                  [array_resc EXCEPT ![i + 1] =
                      DivideFrame(Broadcast(fr.ret.a, p.h, p.w),
                                  flux_divisor(p.scale, p.scale_y, p.scale_x))],
                  i + 1, p)

\* The loop of lines 123-127 from frame i on; array_resc holds the frames
\* written so far.  p: [scale, interpolation, scale_y, scale_x, h, w].
cpr_loop(array, array_resc, i, p) ==
    IF i >= shape(array, 0) THEN LoopExit("none", i, array_resc)
    ELSE cpr_store(array, array_resc, i, p,
                   frame_px_resampling(subarray(array, i), p.scale,
                                       p.interpolation,
                                       Some(p.scale_y), Some(p.scale_x)))

\* What the call leaves behind once its loop l is left: the cube the loop
\* filled, or the loop's exception.
cube_result(array, l, v) ==
    [exc |-> l.exc, ret |-> IF l.exc = "none" THEN v ELSE NoValue,
     retIsInput |-> FALSE, input |-> array,
     locals |-> [i |-> l.i, acc |-> l.acc]]

cpr_filled(array, l) == cube_result(array, l, Arr(3, l.acc))

\* Lines 121-129, the scales resolved and the output sized h x w.
cpr_sized(array, scale, interpolation, sy, sx, h, w) ==
    cpr_filled(array,
               cpr_loop(array, [k \in 1..shape(array, 0) |-> Zeros2(h, w)], 0,
                        [scale |-> scale, interpolation |-> interpolation,
                         scale_y |-> sy, scale_x |-> sx, h |-> h, w |-> w]))

\* Lines 118-122, the scales resolved.
cpr_scaled(array, scale, interpolation, sy, sx, pyv) ==
    cpr_sized(array, scale, interpolation, sy, sx,
              py_round(RMul(Int2R(shape(array, 1)), sy), pyv),
              py_round(RMul(Int2R(shape(array, 2)), sx), pyv))

cube_px_resampling(array, scale, interpolation, scale_y, scale_x, pyv) ==
    IF array.ndim # 3 THEN Raise("TypeError", array)
    ELSE cpr_scaled(array, scale, interpolation,
                    OrElse(scale_y, scale), OrElse(scale_x, scale), pyv)

(***************************************************************************)
(* frame_rescaling                                                         *)
(***************************************************************************)
\* var.frame_center: (cy, cx) = ((rows - 1)/2, (cols - 1)/2), from the first
\* two axes of the array.
frame_center(array) ==
    <<Rat(shape(array, 0) - 1, 2), Rat(shape(array, 1) - 1, 2)>>

\* Python's truth of an optional number: None and 0 are false.
Truthy(o) == o # None /\ The(o) # Zero

\* Line 188 (and 254): the centre replaces the pair only when both are false.
\* A pair of optionals: one of them may stay None.
resolve_ref(ref_y, ref_x, array) ==
    IF ~Truthy(ref_y) /\ ~Truthy(ref_x)
    THEN <<Some(frame_center(array)[1]), Some(frame_center(array)[2])>>
    ELSE <<ref_y, ref_x>>

\* _scale_func: the source (y, x) of the output point (oy, ox).
scale_func(output_coords, ref_y, ref_x, scaling, scaling_y, scaling_x) ==
    <<RAdd(ref_y, RDiv(RSub(Int2R(output_coords[1]), ref_y),
                       OrElse(scaling_y, scaling))),
      RAdd(ref_x, RDiv(RSub(Int2R(output_coords[2]), ref_x),
                       OrElse(scaling_x, scaling)))>>

\* Line 201 were the translation of the y row taken from the x reference.
affine_matrix_swapped(scale_y, scale_x, ref_y, ref_x) ==
    <<<<scale_x, Zero, RMul(RSub(One, scale_x), ref_x)>>,
      <<Zero, scale_y, RMul(RSub(One, scale_y), ref_x)>>>>

\* M of lines 200-201.
affine_matrix(scale_y, scale_x, ref_y, ref_x) ==
    <<<<scale_x, Zero, RMul(RSub(One, scale_x), ref_x)>>,
      <<Zero, scale_y, RMul(RSub(One, scale_y), ref_y)>>>>

\* cv2.invertAffineTransform, which cv2.warpAffine applies to M (no
\* WARP_INVERSE_MAP flag) before it samples:
\*   D = 1/(M11 M22 - M12 M21)  (0 when the determinant is 0),
\*   A11 = M22 D, A22 = M11 D, A12 = -M12 D, A21 = -M21 D,
\*   b1 = -A11 M13 - A12 M23,  b2 = -A21 M13 - A22 M23.
InverseOf(M, A11, A12, A21, A22) ==
    <<<<A11, A12, RSub(RMul(RNeg(A11), M[1][3]), RMul(A12, M[2][3]))>>,
      <<A21, A22, RSub(RMul(RNeg(A21), M[1][3]), RMul(A22, M[2][3]))>>>>

InverseBy(M, D) ==
    InverseOf(M, RMul(M[2][2], D), RMul(RNeg(M[1][2]), D),
                 RMul(RNeg(M[2][1]), D), RMul(M[1][1], D))

Reciprocal(d) == IF d = Zero THEN Zero ELSE RDiv(One, d)

invertAffineTransform(M) ==
    InverseBy(M, Reciprocal(RSub(RMul(M[1][1], M[2][2]),
                                 RMul(M[1][2], M[2][1]))))

\* (y, x) = iM applied to the output pixel (oy, ox).
AffineAt(iM, oy, ox) ==
    <<RAdd(RAdd(RMul(iM[2][1], ox), RMul(iM[2][2], oy)), iM[2][3]),
      RAdd(RAdd(RMul(iM[1][1], ox), RMul(iM[1][2], oy)), iM[1][3])>>

\* The source (y, x) cv2.warpAffine samples for the output pixel (oy, ox).
\* (The library's 1/32-pixel fixed-point rounding of it is left out, as
\* float rounding is.)
warp_source(output_coords, M) ==
    AffineAt(invertAffineTransform(M), Int2R(output_coords[1]),
             Int2R(output_coords[2]))

\* The four cubic taps about a source position whose floor is s.
TapsFrom(w, s) == [j \in 1..4 |-> <<s + j - 2, w[j]>>]

\* The four taps around a source coordinate: <<index, weight>>.
CubicTaps(pos) ==
    TapsFrom(CubicCoeffs(RSub(pos, Int2R(RFloor(pos)))), RFloor(pos))

\* The pixel (r, c) of plane ch, counted from 0; 0 outside the array (the
\* constant border both libraries default to).
PixelOrZero(array, r, c, ch) ==
    IF r < 0 \/ r >= shape(array, 0) \/ c < 0 \/ c >= shape(array, 1) THEN Zero
    ELSE IF array.ndim = 2 THEN array.a[r + 1][c + 1]
    ELSE array.a[r + 1][c + 1][ch + 1]

\* Order-3 interpolation of plane ch at the source point src = (y, x).  Both
\* libraries' order-3 kernels are represented by the cubic convolution
\* weights: exact at whole coordinates, weights summing to 1.
Sample(array, src, ch) ==
    TapSum(CubicTaps(src[1]),
           LAMBDA r : TapSum(CubicTaps(src[2]),
                             LAMBDA c : PixelOrZero(array, r, c, ch)))

Methods == {"geometric_transform", "cv2.warp_affine"}

\* The source point of output pixel oc under either method; ref is resolved.
source_of(method, oc, ref_y, ref_x, scale, scale_y, scale_x) ==
    IF method = "geometric_transform"
    THEN scale_func(oc, ref_y, ref_x, scale, scale_y, scale_x)
    ELSE warp_source(oc, affine_matrix(OrElse(scale_y, scale),
                                       OrElse(scale_x, scale), ref_y, ref_x))

\* One output pixel, sampled at src: a number, or for a 3-d input (which
\* only cv2.warpAffine accepts, reading the last axis as the channels of one
\* image) one number per channel.
PixelAt(array, src) ==
    IF array.ndim = 2 THEN Sample(array, src, 0)
    ELSE [ch \in 1..shape(array, 2) |-> Sample(array, src, ch - 1)]

\* The output array: the same shape as the input, every pixel sampled at its
\* source point.
rescaled(array, method, ref_y, ref_x, scale, scale_y, scale_x) ==
    [r \in 1..shape(array, 0) |-> [c \in 1..shape(array, 1) |->
        PixelAt(array, source_of(method, <<r - 1, c - 1>>, ref_y, ref_x,
                                 scale, scale_y, scale_x))]]

\* Lines 190-210, ref being the reference of line 188.
rescale_about(array, ref, scale, method, scale_y, scale_x) ==
    IF method \notin Methods THEN Raise("ValueError", array)
    \* arithmetic on a None reference, in _scale_func or in M
    ELSE IF ref[1] = None \/ ref[2] = None THEN Raise("TypeError", array)
    \* geometric_transform: the mapping returns 2 coordinates for rank 3
    ELSE IF method = "geometric_transform" /\ array.ndim # 2
    THEN Raise("RuntimeError", array)
    ELSE Return(Arr(array.ndim,
                    rescaled(array, method, The(ref[1]), The(ref[2]),
                             scale, scale_y, scale_x)), array)

frame_rescaling(array, ref_y, ref_x, scale, method, scale_y, scale_x) ==
    rescale_about(array, resolve_ref(ref_y, ref_x, array), scale, method,
                  scale_y, scale_x)

(***************************************************************************)
(* cube_rescaling                                                          *)
(***************************************************************************)
\* xrange is a builtin of Python 2 only; Python 3 raises NameError at line 256.
xrange_exists(pyv) == pyv = 2

RECURSIVE Insert(_, _)
Insert(x, s) ==
    IF s = <<>> THEN <<x>>
    ELSE IF RLe(x, Head(s)) THEN <<x>> \o s
    ELSE <<Head(s)>> \o Insert(x, Tail(s))

RECURSIVE SortR(_)
SortR(s) == IF s = <<>> THEN <<>> ELSE Insert(Head(s), SortR(Tail(s)))

\* Line 262 were the frames combined by np.mean.
mean(vals) == RDiv(RSum(vals), Int2R(Len(vals)))

\* The middle of the sorted values s, the mean of the two middle ones when
\* their number is even.
MiddleOf(s) ==
    IF Len(s) % 2 = 1 THEN s[(Len(s) + 1) \div 2]
    ELSE RDiv(RAdd(s[Len(s) \div 2], s[(Len(s) \div 2) + 1]), Int2R(2))

\* np.median of a non-empty 1-d array.
median(vals) == MiddleOf(SortR(vals))

\* np.median(array_sc, axis=0)
median_axis0(a) ==
    [r \in 1..Len(a[1]) |-> [c \in 1..Len(a[1][1]) |->
        median([k \in 1..Len(a) |-> a[k][r][c]])]]

\* scaling_y / scaling_x as the loop indexes it: [None]*n when not given.
axis_list(scaling, n) ==
    IF scaling = None THEN [k \in 1..n |-> None]
    ELSE [k \in 1..Len(The(scaling)) |-> Some(The(scaling)[k])]

\* scaling_list[i], i counted from 0.
frame_scale(scaling_list, i) == scaling_list[i + 1]

\* Line 257 for frame i, fr being what frame_rescaling gave.
RECURSIVE cr_loop(_, _, _, _)
cr_store(array, array_sc, i, p, fr) ==
    IF fr.exc # "none" THEN LoopExit(fr.exc, i, array_sc)
    ELSE cr_loop(array, [array_sc EXCEPT ![i + 1] = fr.ret.a], i + 1, p)

\* The loop of lines 256-260 were it to stop quietly at the end of the
\* shortest list, as a loop over zip(...) would.
cr_loop_zipped(array, array_sc, i, p) ==
    IF \/ i >= shape(array, 0)
       \/ i >= Len(p.scaling_list)
       \/ i >= Len(p.scaling_y)
       \/ i >= Len(p.scaling_x)
    THEN LoopExit("none", i, array_sc)
    ELSE cr_store(array, array_sc, i, p,
                  frame_rescaling(subarray(array, i), p.ref[1], p.ref[2],
                                  frame_scale(p.scaling_list, i), p.method,
                                  p.scaling_y[i + 1], p.scaling_x[i + 1]))

\* The loop of lines 256-260 from frame i on.
\* p: [scaling_list, ref, method, scaling_y, scaling_x].
cr_loop(array, array_sc, i, p) ==
    IF i >= shape(array, 0) THEN LoopExit("none", i, array_sc)
    ELSE IF \/ i >= Len(p.scaling_list)
            \/ i >= Len(p.scaling_y)
            \/ i >= Len(p.scaling_x)
    THEN LoopExit("IndexError", i, array_sc)
    ELSE cr_store(array, array_sc, i, p,
                  frame_rescaling(subarray(array, i), p.ref[1], p.ref[2],
                                  frame_scale(p.scaling_list, i), p.method,
                                  p.scaling_y[i + 1], p.scaling_x[i + 1]))

\* Lines 262-263: the pair returned once the loop l is left.
cr_combined(array, l) ==
    cube_result(array, l, [array_sc |-> Arr(3, l.acc),
                           array_out |-> Arr(2, median_axis0(l.acc))])

\* np.zeros_like of a cube.
zeros_like3(array) ==
    [k \in 1..shape(array, 0) |-> Zeros2(shape(array, 1), shape(array, 2))]

cube_rescaling(array, scaling_list, ref_y, ref_x, method, scaling_y, scaling_x, pyv) ==
    IF array.ndim # 3 THEN Raise("TypeError", array)
    ELSE IF ~xrange_exists(pyv)
    THEN cube_result(array, LoopExit("NameError", 0, zeros_like3(array)), NoValue)
    ELSE cr_combined(array,
                     cr_loop(array, zeros_like3(array), 0,
                             [scaling_list |-> scaling_list,
                              ref |-> resolve_ref(ref_y, ref_x, subarray(array, 0)),
                              method |-> method,
                              scaling_y |-> axis_list(scaling_y, shape(array, 0)),
                              scaling_x |-> axis_list(scaling_x, shape(array, 0))]))

(***************************************************************************)
(* The state machine: one call per behaviour, from an idle interpreter.    *)
(***************************************************************************)
Init ==
    /\ py \in Interpreters
    /\ pc = "idle"
    /\ fn = "none"
    /\ args = NoValue
    /\ input = NoValue
    /\ locals = NoLocals
    /\ ret = NoValue
    /\ retIsInput = FALSE
    /\ exc = "none"

\* The state after a call that ran to its end in one step.
Finish(f, a, r) ==
    /\ fn' = f
    /\ args' = a
    /\ input' = r.input
    /\ ret' = r.ret
    /\ retIsInput' = r.retIsInput
    /\ exc' = r.exc
    /\ pc' = IF r.exc = "none" THEN "returned" ELSE "raised"
    /\ locals' = r.locals
    /\ UNCHANGED py

Call_check_scal_vector ==
    /\ pc = "idle"
    /\ \E kind \in {"list", "ndarray", "scalar"} :
       \E v \in (IF kind = "scalar" THEN Scales ELSE ScaleVectors) :
          Finish("check_scal_vector", [kind |-> kind, scal_vec |-> v],
                 check_scal_vector(kind, v, py))

\* The per-axis overrides <<scale_y, scale_x>> a call is given.
OverridePairs == {<<None, None>>, <<Some(Rat(1, 2)), None>>,
                  <<None, Some(Int2R(2))>>, <<Some(Int2R(2)), Some(Rat(1, 2))>>}

\* Arrays of the wrong dimensionality, for the calls that must refuse them.
OneCube == {Arr(3, <<FrameOf("ramp", 0, 1, 2), FrameOf("ramp", 1, 1, 2)>>)}
OneFrame == {Arr(2, FrameOf("ramp", 0, 2, 2))}

FrameArgs(ndim) == IF ndim = 2 THEN Frames ELSE OneCube
ResampleCubeArgs(ndim) == IF ndim = 3 THEN CubesOf(Patterns) ELSE OneFrame
RescaleCubeArgs(ndim) == IF ndim = 3 THEN CubesOf({"ramp"}) ELSE OneFrame

Call_frame_px_resampling ==
    /\ pc = "idle"
    /\ \E ndim \in {2, 3} :
       \E array \in FrameArgs(ndim), scale \in Scales,
          interpolation \in Interpolations \cup {"lanczos"},
          ov \in OverridePairs :
          Finish("frame_px_resampling",
                 [array |-> array, scale |-> scale, interpolation |-> interpolation,
                  scale_y |-> ov[1], scale_x |-> ov[2]],
                 frame_px_resampling(array, scale, interpolation, ov[1], ov[2]))

Call_cube_px_resampling ==
    /\ pc = "idle"
    /\ \E ndim \in {2, 3} :
       \E array \in ResampleCubeArgs(ndim), scale \in Scales,
          interpolation \in Interpolations \cup {"lanczos"},
          ov \in OverridePairs :
          Finish("cube_px_resampling",
                 [array |-> array, scale |-> scale,
                  interpolation |-> interpolation,
                  scale_y |-> ov[1], scale_x |-> ov[2]],
                 cube_px_resampling(array, scale, interpolation, ov[1], ov[2], py))

\* The references <<ref_y, ref_x>> a call is given: none, the centre of a
\* 2x2 frame, only one of the two, and zeros.
RefPairs == {<<None, None>>, <<Some(Half), Some(Half)>>, <<None, Some(One)>>,
             <<Some(Zero), Some(One)>>, <<Some(Zero), Some(Zero)>>}

Call_frame_rescaling ==
    /\ pc = "idle"
    /\ \E ndim \in {2, 3} :
       \E array \in FrameArgs(ndim), ref \in RefPairs, scale \in Scales,
          method \in Methods \cup {"map_coordinates"}, ov \in OverridePairs :
          Finish("frame_rescaling",
                 [array |-> array, ref_y |-> ref[1], ref_x |-> ref[2],
                  scale |-> scale, method |-> method,
                  scale_y |-> ov[1], scale_x |-> ov[2]],
                 frame_rescaling(array, ref[1], ref[2], scale, method, ov[1], ov[2]))

\* Scale lists of every length up to MaxFrames (shorter than, as long as and
\* longer than the cube): the prefixes of two lists of alternating factors.
BaseLists ==
    {[k \in 1..MaxFrames |-> IF k % 2 = 1 THEN Int2R(2) ELSE Rat(1, 2)],
     [k \in 1..MaxFrames |-> IF k % 2 = 1 THEN Rat(1, 2) ELSE One]}
ScalingLists == {SubSeq(b, 1, n) : b \in BaseLists, n \in 0..MaxFrames}

\* The optional arguments <<ref_y, ref_x, scaling_y, scaling_x>> a call is
\* given: none; a reference; only ref_x; a y list as long as the largest
\* cube; an x list of one entry.
CubeOptions ==
    {<<None, None, None, None>>,
     <<Some(Half), Some(Half), None, None>>,
     <<None, Some(One), None, None>>,
     <<None, None,
       Some([k \in 1..MaxFrames |-> IF k % 2 = 1 THEN Rat(1, 2) ELSE Int2R(4)]),
       None>>,
     <<None, None, None, Some(<<Rat(1, 4)>>)>>}

Call_cube_rescaling ==
    /\ pc = "idle"
    /\ \E ndim \in {2, 3} :
       \E array \in RescaleCubeArgs(ndim), scaling_list \in ScalingLists,
          method \in Methods \cup {"map_coordinates"}, o \in CubeOptions :
          Finish("cube_rescaling",
                 [array |-> array, scaling_list |-> scaling_list,
                  ref_y |-> o[1], ref_x |-> o[2], method |-> method,
                  scaling_y |-> o[3], scaling_x |-> o[4]],
                 cube_rescaling(array, scaling_list, o[1], o[2], method,
                                o[3], o[4], py))

Next ==
    \/ Call_check_scal_vector
    \/ Call_cube_rescaling
    \/ Call_frame_rescaling
    \/ Call_frame_px_resampling
    \/ Call_cube_px_resampling

Spec == Init /\ [][Next]_vars

(***************************************************************************)
(* Vocabulary of the properties.                                           *)
(***************************************************************************)
Called(f) == fn = f /\ pc # "idle"
Returned(f) == fn = f /\ pc = "returned"

Range(v) == {v[i] : i \in DOMAIN v}

\* The least entry of a non-empty vector, stated without amin.
Least(v) == CHOOSE m \in Range(v) : \A x \in Range(v) : RLe(m, x)

(***************************************************************************)
(* check_scal_vector                                                       *)
(***************************************************************************)
\* C1: for every non-empty scale vector, the vector check_scal_vector
\* returns has minimum exactly 1 whenever some input element is < 1 or the
\* input was a list.
C1_MinimumIsOne ==
    (/\ Returned("check_scal_vector")
     /\ Len(args.scal_vec) > 0
     /\ \/ args.kind = "list"
        \/ \E i \in DOMAIN args.scal_vec : RLt(args.scal_vec[i], One))
    => /\ \E i \in DOMAIN ret : ret[i] = One
       /\ \A i \in DOMAIN ret : RLe(One, ret[i])

\* A list whose entries all exceed 1 came back rescaled.
C1_Witness ==
    /\ Returned("check_scal_vector")
    /\ args.kind = "list"
    /\ Len(args.scal_vec) >= 2
    /\ \A i \in DOMAIN args.scal_vec : RLt(One, args.scal_vec[i])
    /\ ret # args.scal_vec

\* C5: with m the minimum of the original input, the output has the input's
\* length and out[i] = in[i]/m when (m < 1 or the input was a list), else
\* out[i] = in[i]; so positions and the ratios between entries are kept,
\* although the entry holding the minimum is overwritten during the loop.
C5_ElementwiseOverFixedMinimum ==
    Returned("check_scal_vector") =>
       /\ Len(ret) = Len(args.scal_vec)
       /\ \A i \in DOMAIN ret :
            ret[i] = IF RLt(Least(args.scal_vec), One) \/ args.kind = "list"
                     THEN RDiv(args.scal_vec[i], Least(args.scal_vec))
                     ELSE args.scal_vec[i]
       /\ \A i, j \in DOMAIN ret :
            RMul(ret[i], args.scal_vec[j]) = RMul(ret[j], args.scal_vec[i])

\* The minimum, below 1, sits first and is overwritten before the larger
\* entries after it are divided.
C5_Witness ==
    /\ Returned("check_scal_vector")
    /\ Len(args.scal_vec) >= 2
    /\ RLt(args.scal_vec[1], One)
    /\ \A i \in DOMAIN args.scal_vec : RLe(args.scal_vec[1], args.scal_vec[i])
    /\ RLt(args.scal_vec[1], args.scal_vec[2])
    /\ ret[1] = One

(***************************************************************************)
(* Inputs and outputs as objects                                           *)
(***************************************************************************)
\* The contents of the caller's input object when the call was made.
ArgInput == IF fn = "check_scal_vector" THEN args.scal_vec ELSE args.array

\* C2: every one of the five functions leaves its input unchanged and
\* returns a freshly allocated array, never the input object itself.
C2_InputUntouchedOutputFresh ==
    pc # "idle" => /\ input = ArgInput
                   /\ pc = "returned" => ~retIsInput

(***************************************************************************)
(* Dimensionality                                                          *)
(***************************************************************************)
FrameFunctions == {"frame_px_resampling", "frame_rescaling"}
CubeFunctions == {"cube_px_resampling", "cube_rescaling"}

\* C4: each frame-function called with a 3-d array, and each cube-function
\* called with a 2-d array, fails with the shape error (the TypeError of the
\* ndim test) whatever the other arguments are, and returns nothing.
C4_WrongDimensionIsRefused ==
    (/\ pc # "idle"
     /\ \/ fn \in FrameFunctions /\ args.array.ndim = 3
        \/ fn \in CubeFunctions /\ args.array.ndim = 2)
    => /\ pc = "raised"
       /\ exc = "TypeError"
       /\ ret = NoValue

(***************************************************************************)
(* The reference point of frame_rescaling                                  *)
(***************************************************************************)
\* The geometric centre ((N - 1)/2 along each axis) as a given reference.
CentreOf(array) ==
    <<Some(Rat(shape(array, 0) - 1, 2)), Some(Rat(shape(array, 1) - 1, 2))>>

\* C3: in frame_rescaling, whenever either ref_y or ref_x is unset or falsy
\* (one of them alone, not only both together), the rescale is made about the
\* frame's geometric centre, so the call gives what a call with the centre
\* as explicit reference gives.
C3_CentreWhenEitherUnset ==
    (/\ Called("frame_rescaling")
     /\ args.array.ndim = 2
     /\ args.method \in Methods
     /\ ~Truthy(args.ref_y) \/ ~Truthy(args.ref_x))
    => /\ pc = "returned"
       /\ ret = rescale_about(args.array, CentreOf(args.array), args.scale,
                              args.method, args.scale_y, args.scale_x).ret

(***************************************************************************)
(* Resampling: flux and shapes                                             *)
(***************************************************************************)
RowSums(fr) == [r \in 1..Len(fr) |-> RSum(fr[r])]
FrameSum(fr) == RSum(RowSums(fr))

\* Every pixel of the frame has the value of its first pixel.
Uniform(fr) == \A r \in 1..Len(fr), c \in 1..Len(fr[1]) : fr[r][c] = fr[1][1]

NoOverride == args.scale_y = None /\ args.scale_x = None

\* a within one percent of b
Approx(a, b) ==
    /\ RLe(RSub(a, b), RDiv(b, Int2R(100)))
    /\ RLe(RSub(b, a), RDiv(b, Int2R(100)))

SquareOf(x) == RMul(x, x)

\* C6 as stated: for a uniform input frame and scale s, the summed pixel
\* value of the output frame of cube_px_resampling is, within tolerance, the
\* summed pixel value of the input frame divided by s^2.
C6_SumIsInputSumOverSquare ==
    (/\ Returned("cube_px_resampling")
     /\ NoOverride
     /\ \A k \in DOMAIN args.array.a : Uniform(args.array.a[k]))
    => \A k \in DOMAIN ret.a :
          Approx(FrameSum(ret.a[k]),
                 RDiv(FrameSum(args.array.a[k]), SquareOf(args.scale)))

\* C6 amended: for a uniform input frame of value v, every pixel of the
\* output frame is v / scale**2, so the output frame sums to
\* v * h * w / scale**2 for its h x w pixels; with no per-axis override and
\* rows*scale, cols*scale whole, that is the input frame's sum itself.
C6_UniformFrameKeepsItsSum ==
    Returned("cube_px_resampling") =>
       \A k \in DOMAIN ret.a :
          Uniform(args.array.a[k]) =>
             /\ \A r \in 1..shape(ret, 1), c \in 1..shape(ret, 2) :
                   ret.a[k][r][c] =
                      RDiv(args.array.a[k][1][1], SquareOf(args.scale))
             /\ FrameSum(ret.a[k]) =
                   RDiv(RMul(args.array.a[k][1][1],
                             Int2R(shape(ret, 1) * shape(ret, 2))),
                        SquareOf(args.scale))
             /\ (/\ NoOverride
                 /\ RIsInt(RMul(Int2R(shape(args.array, 1)), args.scale))
                 /\ RIsInt(RMul(Int2R(shape(args.array, 2)), args.scale)))
                => FrameSum(ret.a[k]) = FrameSum(args.array.a[k])

\* A uniform 2x2 frame enlarged twice keeps its sum, four times the sum the
\* division by s^2 alone would leave.
C6_Witness ==
    /\ Returned("cube_px_resampling")
    /\ NoOverride
    /\ args.scale = Int2R(2)
    /\ shape(args.array, 1) = 2 /\ shape(args.array, 2) = 2
    /\ Uniform(args.array.a[1])
    /\ shape(ret, 1) = 4 /\ shape(ret, 2) = 4
    /\ FrameSum(ret.a[1]) = FrameSum(args.array.a[1])
    /\ FrameSum(ret.a[1]) # RDiv(FrameSum(args.array.a[1]), Int2R(4))

\* round(n * f) as the running interpreter rounds.
Rounded(n, f) == py_round(RMul(Int2R(n), f), py)

\* C7: for every 2-d frame and every scale (scale_y / scale_x overriding it
\* per axis when given) frame_px_resampling returns a frame of
\* round(rows*scale_y) x round(cols*scale_x) pixels; for every cube
\* cube_px_resampling returns a cube of as many frames with those per-frame
\* dimensions, and the call never fails on a shape mismatch.
C7_ResampledShape ==
    /\ (/\ Called("frame_px_resampling")
        /\ args.array.ndim = 2
        /\ args.interpolation \in Interpolations)
       => /\ pc = "returned"
          /\ shape(ret, 0) =
                Rounded(shape(args.array, 0), OrElse(args.scale_y, args.scale))
          /\ shape(ret, 1) =
                Rounded(shape(args.array, 1), OrElse(args.scale_x, args.scale))
    /\ (/\ Called("cube_px_resampling")
        /\ args.array.ndim = 3
        /\ args.interpolation \in Interpolations)
       => /\ pc = "returned"
          /\ shape(ret, 0) = shape(args.array, 0)
          /\ shape(ret, 1) =
                Rounded(shape(args.array, 1), OrElse(args.scale_y, args.scale))
          /\ shape(ret, 2) =
                Rounded(shape(args.array, 2), OrElse(args.scale_x, args.scale))

(***************************************************************************)
(* The two backends of frame_rescaling                                     *)
(***************************************************************************)
\* ref + (o - ref)/s along one axis
AxisSource(o, ref, s) == RAdd(ref, RDiv(RSub(Int2R(o), ref), s))

\* What C9 says of the output pixel (oy, ox), the reference (ry, rx) being
\* the resolved one and sy, sx the resolved per-axis scales.
BackendsAgreeAt(oy, ox, ry, rx, sy, sx) ==
    /\ source_of("cv2.warp_affine", <<oy, ox>>, ry, rx, args.scale,
                 args.scale_y, args.scale_x)
          = <<AxisSource(oy, ry, sy), AxisSource(ox, rx, sx)>>
    /\ source_of("geometric_transform", <<oy, ox>>, ry, rx, args.scale,
                 args.scale_y, args.scale_x)
          = <<AxisSource(oy, ry, sy), AxisSource(ox, rx, sx)>>
    /\ (args.scale = One /\ NoOverride)
       => /\ AxisSource(oy, ry, sy) = Int2R(oy)
          /\ AxisSource(ox, rx, sx) = Int2R(ox)

BackendsAgree(ry, rx, sy, sx) ==
    /\ affine_matrix(sy, sx, ry, rx)
          = <<<<sx, Zero, RMul(RSub(One, sx), rx)>>,
              <<Zero, sy, RMul(RSub(One, sy), ry)>>>>
    /\ \A oy \in 0..(shape(args.array, 0) - 1),
          ox \in 0..(shape(args.array, 1) - 1) :
          BackendsAgreeAt(oy, ox, ry, rx, sy, sx)

BothGiven(ref) == ref[1] # None /\ ref[2] # None

\* C9: for every frame shape, reference point, scale and optional per-axis
\* overrides, and every output pixel (oy, ox), the source coordinate the
\* affine-warp backend samples with
\*   M = [[scale_x, 0, (1-scale_x)*ref_x], [0, scale_y, (1-scale_y)*ref_y]]
\* is the geometric backend's (ref_y + (oy-ref_y)/scale_y,
\* ref_x + (ox-ref_x)/scale_x), both backends taking scale for an unset
\* scale_y or scale_x; with scale = 1 both map every pixel to itself.
C9_BackendsMapAlike ==
    (/\ Called("frame_rescaling")
     /\ args.array.ndim = 2
     /\ BothGiven(resolve_ref(args.ref_y, args.ref_x, args.array)))
    => BackendsAgree(The(resolve_ref(args.ref_y, args.ref_x, args.array)[1]),
                     The(resolve_ref(args.ref_y, args.ref_x, args.array)[2]),
                     OrElse(args.scale_y, args.scale),
                     OrElse(args.scale_x, args.scale))

\* The affine warp of a 2x2 ramp about the off-centre point (0, 1), shrunk
\* along y only, returned the frame the geometric backend gives.
C9_Witness ==
    /\ Returned("frame_rescaling")
    /\ args.method = "cv2.warp_affine"
    /\ args.ref_y = Some(Zero) /\ args.ref_x = Some(One)
    /\ args.scale = Int2R(2)
    /\ args.scale_y = Some(Rat(1, 2)) /\ args.scale_x = None
    /\ shape(args.array, 0) = 2 /\ shape(args.array, 1) = 2
    /\ ~Uniform(args.array.a)
    /\ ret # args.array
    /\ ret = frame_rescaling(args.array, args.ref_y, args.ref_x, args.scale,
                             "geometric_transform", args.scale_y,
                             args.scale_x).ret

(***************************************************************************)
(* cube_rescaling                                                          *)
(***************************************************************************)
Below(vals, x) == {i \in DOMAIN vals : RLt(vals[i], x)}
UpTo(vals, x) == {i \in DOMAIN vals : RLe(vals[i], x)}

\* The k-th smallest of the values, stated by counting.
KthSmallest(vals, k) ==
    CHOOSE x \in Range(vals) :
       Cardinality(Below(vals, x)) < k /\ k <= Cardinality(UpTo(vals, x))

\* The median by its definition: the middle value, or the mean of the two
\* middle values of an even number of them.
MedianOf(vals) ==
    IF Len(vals) % 2 = 1 THEN KthSmallest(vals, (Len(vals) + 1) \div 2)
    ELSE RDiv(RAdd(KthSmallest(vals, Len(vals) \div 2),
                   KthSmallest(vals, (Len(vals) \div 2) + 1)), Int2R(2))

Along0(a, r, c) == [k \in 1..Len(a) |-> a[k][r][c]]

\* The reference shared by the frames: the one given, else the centre of
\* the first frame.
SharedRef ==
    IF args.ref_y = None /\ args.ref_x = None
    THEN CentreOf(subarray(args.array, 0))
    ELSE <<args.ref_y, args.ref_x>>

AxisScale(scaling, i) == IF scaling = None THEN None ELSE Some(The(scaling)[i])

LongEnough(scaling, n) == scaling = None \/ Len(The(scaling)) >= n

\* Frame i (from 1) of the input, rescaled on its own.
FrameRescaled(i) ==
    rescale_about(subarray(args.array, i - 1), SharedRef, args.scaling_list[i],
                  args.method, AxisScale(args.scaling_y, i),
                  AxisScale(args.scaling_x, i)).ret.a

\* A call whose arguments other than the list lengths are in order, made
\* where the loop of line 256 can run (xrange is a Python 2 builtin).
CubeCallInOrder ==
    /\ Called("cube_rescaling")
    /\ xrange_exists(py)
    /\ args.array.ndim = 3
    /\ args.method \in Methods
    /\ (args.ref_y = None) = (args.ref_x = None)

Shortest ==
    CHOOSE n \in {Len(args.scaling_list)}
                 \cup (IF args.scaling_y = None THEN {}
                       ELSE {Len(The(args.scaling_y))})
                 \cup (IF args.scaling_x = None THEN {}
                       ELSE {Len(The(args.scaling_x))}) :
       /\ n <= Len(args.scaling_list)
       /\ LongEnough(args.scaling_y, n)
       /\ LongEnough(args.scaling_x, n)

====
